---- MODULE Spec2Model ----
(***************************************************************************)
(* tammypaste: the Datastore class (datastore.py) over its two MongoDB     *)
(* collections, and the Flask routes of api.py that call it.               *)
(*                                                                         *)
(* Every pymongo call (find_one, find_one_and_update, insert_one,          *)
(* replace_one, delete_one, find) is one atomic step of the database; a    *)
(* method that makes several calls takes several steps, and the steps of   *)
(* concurrent callers interleave.                                          *)
(***************************************************************************)
EXTENDS Integers, Sequences, FiniteSets, TLC

\* Bounds of the model.
MaxOps == 3          \* calls and requests started in one behaviour
MaxClock == 1        \* datetime.now() reads 0 .. MaxClock

\* Input domains.
Clients == {"c1", "c2"}
Contents == {"a", "b"}
ExplicitIds == {1, 2}
Times == 0 .. MaxClock

\* Python's None, and a field a document does not have.
None == 0 - 1

VARIABLES
    pasties,        \* the pasties collection: a set of documents
    counterValue,   \* counters document {"counterName": "pasties"}
    nextOid,        \* ObjectIds handed out so far (insert_one adds _id)
    now,            \* the wall clock
    pc,             \* per caller: where it is in its call
    call,           \* per caller: the call's arguments and locals
    result,         \* per caller: what its last call returned or raised
    wrote,          \* per caller: has its current call changed the database
    held,           \* history: every (ObjectId, id) a pastie was inserted with
    issued,         \* history: values get_new_pastie_id returned, in order
    counter0,       \* the counter's value at the start
    log,            \* history: the exchanges of a caller who has acted alone
    actor,          \* history: the caller that took the last step
    ops             \* calls and requests started

vars == <<pasties, counterValue, nextOid, now, pc, call, result, wrote,
          held, issued, counter0, log, actor, ops>>

Min(a, b) == IF a < b THEN a ELSE b

(***************************************************************************)
(* pymongo, as the Datastore uses it.                                      *)
(***************************************************************************)

\* Collection.find({"id": pastie_id}): a document without an id field, or
\* with another id, does not match.
Matching(coll, pastie_id) == {d \in coll : d.id = pastie_id}

\* find_one_and_update({"counterName": "pasties"}, {"$inc": 1}, AFTER)
find_one_and_update_before(v) == [stored |-> v + 1, returned |-> v]
find_one_and_update(v) == [stored |-> v + 1, returned |-> v + 1]

\* insert_one returns an InsertOneResult, which wraps the new _id.
InsertOneResult(oid) == [type |-> "InsertOneResult", inserted_id |-> oid]

\* What bson can encode in a query filter.
BsonEncodable(v) == v.type \in {"ObjectId", "int", "str"}

\* Collection.find_one({"_id": key}): the outcome and the document.
find_one_by_unique_id(coll, key) ==
    IF ~BsonEncodable(key) THEN [outcome |-> "InvalidDocument", doc |-> None]
    ELSE LET hit == {d \in coll : d._id = key.value}
         IN  IF hit = {} THEN [outcome |-> "ok", doc |-> None]
             ELSE [outcome |-> "ok", doc |-> CHOOSE d \in hit : TRUE]

\* Collection.replace_one({"id": pastie_id}, doc): one matching document, if
\* there is one, becomes doc; only its _id is kept.
replace_one(coll, pastie_id, doc) ==
    IF Matching(coll, pastie_id) = {} THEN {coll}
    ELSE {(coll \ {d}) \cup {[doc EXCEPT !._id = d._id]} :
            d \in Matching(coll, pastie_id)}

\* Collection.delete_one({"id": pastie_id}): one matching document, if there
\* is one, is removed.
delete_one(coll, pastie_id) ==
    IF Matching(coll, pastie_id) = {} THEN {coll}
    ELSE {coll \ {d} : d \in Matching(coll, pastie_id)}

\* Collection.find(filt_expr): "" is the empty filter, x is {"content": x}.
find(coll, filt_expr) ==
    {d \in coll : filt_expr = "" \/ d.content = filt_expr}

\* Cursor.sort("id"): ascending, a missing id before every number, documents
\* with equal ids in any order.
RECURSIVE sort(_)
sort(rows) ==
    IF rows = {} THEN {<<>>}
    ELSE UNION {{<<d>> \o rest : rest \in sort(rows \ {d})} :
                  d \in {m \in rows : \A o \in rows : m.id <= o.id}}

\* Cursor.limit(n): a limit of 0 is no limit.
limit(rows, n) == IF n = 0 THEN rows ELSE SubSeq(rows, 1, Min(n, Len(rows)))

(***************************************************************************)
(* Datastore                                                               *)
(***************************************************************************)

pastie_exists_never(coll, pastie_id) == FALSE
pastie_exists(coll, pastie_id) == Matching(coll, pastie_id) # {}

\* update_pastie, lines 162-166: the replacement document has no id field.
replacement(pastie_data) ==
    [_id |-> None, id |-> None, content |-> pastie_data.content,
     created_at |-> pastie_data.created_at,
     updated_at |-> pastie_data.updated_at]

\* list_pasties: the sequences the cursor can yield.
list_pasties(coll, query, max_records) ==
    IF max_records # None
    THEN {limit(rows, max_records) : rows \in sort(find(coll, query))}
    ELSE sort(find(coll, query))

\* Inputs: what callers pass as pastie_data to update_pastie (a dict, as api.py
\* does, or an object with the three attributes, its updated_at the time of
\* the call), and to list_pasties.
UpdateData ==
    {[kind |-> "dict", content |-> x, created_at |-> None,
      updated_at |-> None] : x \in Contents}
    \cup {[kind |-> "object", content |-> x, created_at |-> t,
           updated_at |-> now] : x \in Contents, t \in Times}
Queries == {"", "a"}
Limits == {None, 0, 1, 2}

NoCall == [op |-> "none", via |-> "db", kind |-> "none", id |-> None,
           content |-> "", created_at |-> None, updated_at |-> None]
NoResult == [op |-> "none", via |-> "db", kind |-> "none", id |-> None,
             content |-> "", outcome |-> "none", status |-> 0, value |-> None]

\* A call with these arguments.
Call(op, via, kind, id, content) ==
    [op |-> op, via |-> via, kind |-> kind, id |-> id, content |-> content,
     created_at |-> None, updated_at |-> None]

\* Whether this step of caller c changed the database; a new call starts clean.
Writes(c) ==
    wrote' = [wrote EXCEPT ![c] =
                (IF pc[c] = "idle" THEN FALSE ELSE @)
                \/ pasties' # pasties \/ counterValue' # counterValue]

\* The exchanges of a caller are logged for as long as no one else has acted.
Alone(c) == \A o \in Clients \ {c} : pc[o] = "idle" /\ result[o].op = "none"
Logs(c) ==
    log' = IF ~Alone(c) THEN <<>>
           ELSE IF pc'[c] = "idle" THEN Append(log, result'[c]) ELSE log

Records(c) == Writes(c) /\ Logs(c) /\ actor' = c

\* Call k of caller c ends: the caller is idle again and holds the outcome.
Return(c, k, outcome, status, value) ==
    /\ pc' = [pc EXCEPT ![c] = "idle"]
    /\ call' = [call EXCEPT ![c] = NoCall]
    /\ result' = [result EXCEPT ![c] =
                    [op |-> k.op, via |-> k.via, kind |-> k.kind, id |-> k.id,
                     content |-> k.content, outcome |-> outcome,
                     status |-> status, value |-> value]]

\* An exception leaves a route as Flask's 500; a direct caller sees it.
Raise(c, k, exc) == Return(c, k, exc, IF k.via = "api" THEN 500 ELSE 0, None)

\* Call k of caller c goes on at `label`.
Goto(c, k, label) ==
    /\ pc' = [pc EXCEPT ![c] = label]
    /\ call' = [call EXCEPT ![c] = k]
    /\ UNCHANGED result

\* A call begins.
Begin(c) ==
    /\ pc[c] = "idle"
    /\ ops < MaxOps
    /\ ops' = ops + 1

(***************************************************************************)
(* api.py: what the routes do with a Datastore result.                     *)
(***************************************************************************)

\* url_for('get_pastie', pastie_id=..., _external=True)
url_for(pastie_id) == <<"/api/pasties/", pastie_id>>

\* make_public_pastie: every field is copied, and url is added beside id.
make_public_pastie(pastie) ==
    [_id |-> pastie._id, id |-> pastie.id,
     url |-> IF pastie.id # None THEN url_for(pastie.id) ELSE <<>>,
     content |-> pastie.content, created_at |-> pastie.created_at,
     updated_at |-> pastie.updated_at]

\* jsonify: Flask's encoder has no encoding for an ObjectId.
jsonify(body) ==
    IF "_id" \in DOMAIN body THEN [outcome |-> "TypeError", body |-> <<>>]
    ELSE [outcome |-> "ok", body |-> body]

\* return jsonify({'pastie': make_public_pastie(pastie)}), status
respond(c, k, status, pastie) ==
    LET r == jsonify(make_public_pastie(pastie))
    IN  IF r.outcome = "ok" THEN Return(c, k, "ok", status, r.body)
        ELSE Raise(c, k, r.outcome)

\* not_found: the 404 handler passes the exception itself to jsonify, which
\* cannot encode it; the exception in the handler is answered with 500.
not_found == [outcome |-> "abort404", status |-> 500]

\* abort(code): 400 and 401 get the default response, 404 goes to not_found.
abort(c, k, code) ==
    IF code = 404 THEN Return(c, k, not_found.outcome, not_found.status, None)
    ELSE Return(c, k, "abort", code, None)

\* Request bodies: without a JSON content field, or with one.
Bodies == {[has |-> FALSE, content |-> ""]}
          \cup {[has |-> TRUE, content |-> x] : x \in Contents}
Routes == {"GET", "create", "PUT", "DELETE"}

(***************************************************************************)
(* Datastore methods, step by step.                                        *)
(***************************************************************************)

\* get_new_pastie_id, called directly (api.get_next_pastie_id).
get_new_pastie_id(c) ==
    /\ Begin(c)
    /\ LET r == find_one_and_update(counterValue)
       IN  /\ counterValue' = r.stored
           /\ issued' = Append(issued, r.returned)
           /\ Return(c, Call("next_id", "db", "none", None, ""), "ok", 0,
                     r.returned)
    /\ UNCHANGED <<pasties, nextOid, now, held, counter0>>
    /\ Records(c)

\* create_pastie, lines 138-146: created_at and updated_at are two reads of
\* the clock, which may move between them.
Stamps == {<<now, t2>> : t2 \in now .. Min(now + 1, MaxClock)}

\* create_pastie, lines 148-149.
CreateCheckStep(c, k) ==
    IF pastie_exists(pasties, k.id)
    THEN Raise(c, k, "ValueError")
    ELSE Goto(c, k, "create_insert")

\* create_pastie without an id, lines 135-146: the id comes from the counter.
CreateFill(c, via, content) ==
    /\ Begin(c)
    /\ LET r == find_one_and_update(counterValue)
       IN  /\ counterValue' = r.stored
           /\ issued' = Append(issued, r.returned)
           /\ \E t \in Stamps :
                /\ now' = t[2]
                /\ Goto(c, [Call("create", via, "counter", r.returned, content)
                              EXCEPT !.created_at = t[1], !.updated_at = t[2]],
                        "create_check")
    /\ UNCHANGED <<pasties, nextOid, held, counter0>>
    /\ Records(c)

CreateCounter(c) == \E content \in Contents : CreateFill(c, "db", content)

\* create_pastie with the id the caller gave: lines 138-149.
CreateExplicit(c) ==
    /\ Begin(c)
    /\ \E id \in ExplicitIds, content \in Contents, t \in Stamps :
         /\ now' = t[2]
         /\ CreateCheckStep(c, [Call("create", "db", "explicit", id, content)
                                  EXCEPT !.created_at = t[1],
                                         !.updated_at = t[2]])
    /\ UNCHANGED <<pasties, counterValue, nextOid, held, issued, counter0>>
    /\ Records(c)

CreateCheck(c) ==
    /\ pc[c] = "create_check"
    /\ CreateCheckStep(c, call[c])
    /\ UNCHANGED <<pasties, counterValue, nextOid, now, held, issued,
                   counter0, ops>>
    /\ Records(c)

\* create_pastie, lines 151-152: insert_one, then find_one with the
\* InsertOneResult as the _id to look for.
CreateInsert(c) ==
    /\ pc[c] = "create_insert"
    /\ LET k == call[c]
           doc == [_id |-> nextOid + 1, id |-> k.id, content |-> k.content,
                   created_at |-> k.created_at, updated_at |-> k.updated_at]
           new_pastie_id == InsertOneResult(nextOid + 1)
           found == find_one_by_unique_id(pasties \cup {doc}, new_pastie_id)
       IN  /\ pasties' = pasties \cup {doc}
           /\ nextOid' = nextOid + 1
           /\ held' = held \cup {[oid |-> doc._id, id |-> doc.id]}
           /\ IF found.outcome # "ok" THEN Raise(c, k, found.outcome)
              ELSE IF k.via = "api"
                   THEN respond(c, k, 201, found.doc)
                   ELSE Return(c, k, "ok", 0, found.doc)
    /\ UNCHANGED <<counterValue, now, issued, counter0, ops>>
    /\ Records(c)

\* update_pastie without the test of lines 160-161.
UpdateFindUnchecked(c) ==
    /\ Begin(c)
    /\ \E id \in ExplicitIds, data \in UpdateData :
         LET k == [Call("update", "db", data.kind, id, data.content)
                     EXCEPT !.created_at = data.created_at,
                            !.updated_at = data.updated_at]
         IN  IF data.kind = "dict" THEN Raise(c, k, "AttributeError")
             ELSE Goto(c, k, "update_replace")
    /\ UNCHANGED <<pasties, counterValue, nextOid, now, held, issued,
                   counter0>>
    /\ Records(c)

\* update_pastie, lines 159-161, and the reads of pastie_data's attributes
\* for the replacement document: a dict has no such attributes.
UpdateFind(c) ==
    /\ Begin(c)
    /\ \E id \in ExplicitIds, data \in UpdateData :
         LET k == [Call("update", "db", data.kind, id, data.content)
                     EXCEPT !.created_at = data.created_at,
                            !.updated_at = data.updated_at]
         IN  IF Matching(pasties, id) = {} THEN Raise(c, k, "KeyError")
             ELSE IF data.kind = "dict" THEN Raise(c, k, "AttributeError")
             ELSE Goto(c, k, "update_replace")
    /\ UNCHANGED <<pasties, counterValue, nextOid, now, held, issued,
                   counter0>>
    /\ Records(c)

\* update_pastie, lines 162-166.
UpdateReplace(c) ==
    /\ pc[c] = "update_replace"
    /\ LET k == call[c]
       IN  /\ pasties' \in replace_one(pasties, k.id, replacement(k))
           /\ Return(c, k, "ok", 0, Cardinality(Matching(pasties, k.id)))
    /\ UNCHANGED <<counterValue, nextOid, now, held, issued, counter0, ops>>
    /\ Records(c)

\* delete_pastie.
DeletePastie(c) ==
    /\ Begin(c)
    /\ \E id \in ExplicitIds :
         /\ pasties' \in delete_one(pasties, id)
         /\ Return(c, Call("delete", "db", "none", id, ""), "ok", 0,
                   Cardinality(pasties) - Cardinality(pasties'))
    /\ UNCHANGED <<counterValue, nextOid, now, held, issued, counter0>>
    /\ Records(c)

\* list_pasties, with the cursor read to its end.
ListPasties(c) ==
    /\ Begin(c)
    /\ \E query \in Queries, max_records \in Limits :
         \E rows \in list_pasties(pasties, query, max_records) :
             Return(c, [Call("list", "db", "none", max_records, "")
                          EXCEPT !.kind = query],
                    "ok", 0, rows)
    /\ UNCHANGED <<pasties, counterValue, nextOid, now, held, issued,
                   counter0>>
    /\ Records(c)

(***************************************************************************)
(* api.py routes                                                           *)
(***************************************************************************)

\* login_required: no credentials, or a token that is not the user's.
ApiUnauthorized(c) ==
    /\ Begin(c)
    /\ \E route \in Routes :
         abort(c, Call(route, "api", "unauthorized", None, ""), 401)
    /\ UNCHANGED <<pasties, counterValue, nextOid, now, held, issued,
                   counter0>>
    /\ Records(c)

\* get_pastie
ApiGetPastie(c) ==
    /\ Begin(c)
    /\ \E pastie_id \in ExplicitIds :
         LET k == Call("GET", "api", "none", pastie_id, "")
         IN  IF Matching(pasties, pastie_id) = {} THEN abort(c, k, 404)
             ELSE \E pastie \in Matching(pasties, pastie_id) :
                     respond(c, k, 200, pastie)
    /\ UNCHANGED <<pasties, counterValue, nextOid, now, held, issued,
                   counter0>>
    /\ Records(c)

\* new_pastie drawing the id before it looks at the body.
ApiNewPastieLateCheck(c) ==
    /\ Begin(c)
    /\ LET r == find_one_and_update(counterValue)
       IN  /\ counterValue' = r.stored
           /\ issued' = Append(issued, r.returned)
    /\ abort(c, Call("create", "api", "nocontent", None, ""), 400)
    /\ UNCHANGED <<pasties, nextOid, now, held, counter0>>
    /\ Records(c)

\* new_pastie, lines 152-153.
ApiNewPastieBadRequest(c) ==
    /\ Begin(c)
    /\ abort(c, Call("create", "api", "nocontent", None, ""), 400)
    /\ UNCHANGED <<pasties, counterValue, nextOid, now, held, issued,
                   counter0>>
    /\ Records(c)

\* new_pastie, lines 154-158: create_pastie({'content': ...}).
ApiNewPastie(c) == \E content \in Contents : CreateFill(c, "api", content)

\* update_pastie (the route): the default it passes to request.json.get reads
\* pastie.content, an attribute the dict that find_one returned does not have.
ApiUpdatePastie(c) ==
    /\ Begin(c)
    /\ \E pastie_id \in ExplicitIds, body \in Bodies :
         LET k == Call("PUT", "api",
                       IF body.has THEN "content" ELSE "nocontent",
                       pastie_id, body.content)
         IN  IF Matching(pasties, pastie_id) = {} THEN abort(c, k, 404)
             ELSE IF ~body.has THEN abort(c, k, 400)
             ELSE Raise(c, k, "AttributeError")
    /\ UNCHANGED <<pasties, counterValue, nextOid, now, held, issued,
                   counter0>>
    /\ Records(c)

\* delete_pastie (the route), lines 184-185.
ApiDeleteCheck(c) ==
    /\ Begin(c)
    /\ \E pastie_id \in ExplicitIds :
         LET k == Call("DELETE", "api", "none", pastie_id, "")
         IN  IF ~pastie_exists(pasties, pastie_id) THEN abort(c, k, 404)
             ELSE Goto(c, k, "api_delete")
    /\ UNCHANGED <<pasties, counterValue, nextOid, now, held, issued,
                   counter0>>
    /\ Records(c)

\* delete_pastie (the route), lines 186-187.
ApiDelete(c) ==
    /\ pc[c] = "api_delete"
    /\ pasties' \in delete_one(pasties, call[c].id)
    /\ Return(c, call[c], "ok", 200, [deleted |-> TRUE])
    /\ UNCHANGED <<counterValue, nextOid, now, held, issued, counter0, ops>>
    /\ Records(c)

(***************************************************************************)
(* The system                                                              *)
(***************************************************************************)

\* A pastie as one request to new_pastie leaves it.
Seeded == [_id |-> 1, id |-> 1, content |-> "a",
           created_at |-> 0, updated_at |-> 0]

Init ==
    /\ \/ /\ pasties = {} /\ counterValue = 0 /\ nextOid = 0 /\ held = {}
       \/ /\ pasties = {Seeded} /\ counterValue = 1 /\ nextOid = 1
          /\ held = {[oid |-> 1, id |-> 1]}
    /\ counter0 = counterValue
    /\ issued = <<>>
    /\ log = <<>>
    /\ actor = ""
    /\ now = 0
    /\ pc = [c \in Clients |-> "idle"]
    /\ call = [c \in Clients |-> NoCall]
    /\ result = [c \in Clients |-> NoResult]
    /\ wrote = [c \in Clients |-> FALSE]
    /\ ops = 0

Next ==
    \E c \in Clients :
        \/ get_new_pastie_id(c)
        \/ CreateCounter(c)
        \/ CreateExplicit(c)
        \/ CreateCheck(c)
        \/ CreateInsert(c)
        \/ UpdateFind(c)
        \/ UpdateReplace(c)
        \/ DeletePastie(c)
        \/ ListPasties(c)
        \/ ApiUnauthorized(c)
        \/ ApiGetPastie(c)
        \/ ApiNewPastieBadRequest(c)
        \/ ApiNewPastie(c)
        \/ ApiUpdatePastie(c)
        \/ ApiDeleteCheck(c)
        \/ ApiDelete(c)

Spec == Init /\ [][Next]_vars

\* Callers of create_pastie, delete_pastie and get_new_pastie_id only.
NextCreate ==
    \E c \in Clients :
        \/ get_new_pastie_id(c)
        \/ CreateCounter(c)
        \/ CreateExplicit(c)
        \/ CreateCheck(c)
        \/ CreateInsert(c)
        \/ DeletePastie(c)

SpecCreate == Init /\ [][NextCreate]_vars

\* Callers of create_pastie, update_pastie and delete_pastie only.
NextUpdate ==
    \E c \in Clients :
        \/ CreateCounter(c)
        \/ CreateCheck(c)
        \/ CreateInsert(c)
        \/ UpdateFind(c)
        \/ UpdateReplace(c)
        \/ DeletePastie(c)

SpecUpdate == Init /\ [][NextUpdate]_vars

\* Clients of the HTTP API only.
NextApi ==
    \E c \in Clients :
        \/ ApiUnauthorized(c)
        \/ ApiGetPastie(c)
        \/ ApiNewPastieBadRequest(c)
        \/ ApiNewPastie(c)
        \/ CreateCheck(c)
        \/ CreateInsert(c)
        \/ ApiUpdatePastie(c)
        \/ ApiDeleteCheck(c)
        \/ ApiDelete(c)

SpecApi == Init /\ [][NextApi]_vars

(***************************************************************************)
(* Properties                                                              *)
(***************************************************************************)

\* Caller c starts a call with this step.
Starts(c) == actor' = c /\ pc[c] = "idle"

\* C1: no id is ever held by two distinct pasties over the history of the
\* store: no two live pasties share an id, and the id of a deleted pastie is
\* never given to a later pastie.
C1_NoIdHeldTwice ==
    /\ \A d, e \in pasties : d.id # None /\ d.id = e.id => d = e
    /\ \A g, h \in held : g.id = h.id => g.oid = h.oid

\* C2: the values get_new_pastie_id returned to its callers, however their
\* calls interleave, are counter0 + 1, counter0 + 2, ... with none repeated and
\* none missing, and the counter holds the last of them.
C2_CounterIssuesConsecutive ==
    /\ \A i \in 1 .. Len(issued) : issued[i] = counter0 + i
    /\ counterValue = counter0 + Len(issued)

\* Two callers hold ids they drew while both calls were under way.
C2_TwoCallersDrew ==
    /\ \A c \in Clients : pc[c] = "create_check"
    /\ \E c, o \in Clients : call[c].id # call[o].id
    /\ Len(issued) = 2

\* C3: create_pastie with the id of a live pastie ends with the duplicate-id
\* error, and that step changes neither the pasties nor the counter; a call
\* that ended so has not written at all.
C3_DuplicateExplicitIdFails ==
    [][\A c \in Clients :
        LET begun == /\ Starts(c)
                     /\ \/ pc'[c] = "create_insert"
                        \/ /\ pc'[c] = "idle"
                           /\ result'[c].op = "create"
                           /\ result'[c].kind = "explicit"
            id == IF pc'[c] = "idle" THEN result'[c].id ELSE call'[c].id
        IN  /\ (begun /\ \E d \in pasties : d.id = id)
               => /\ pc'[c] = "idle"
                  /\ result'[c].outcome = "ValueError"
                  /\ pasties' = pasties
                  /\ counterValue' = counterValue
            /\ (pc'[c] = "idle" /\ result'[c].kind = "explicit"
                  /\ result'[c].outcome = "ValueError")
               => ~wrote'[c]]_vars

\* A create with the id of a live pastie, and other content, has failed.
C3_DuplicateRefused ==
    \E c \in Clients :
        /\ pc[c] = "idle" /\ actor = c
        /\ result[c].kind = "explicit" /\ result[c].outcome = "ValueError"
        /\ \E d \in pasties :
             d.id = result[c].id /\ d.content # result[c].content

\* C4: create_pastie({content}) returns the stored record: it is in the
\* collection under the id the call drew, with that content, a created_at, and
\* created_at equal to updated_at.
C4_CreateReturnsStoredRecord ==
    [][\A c \in Clients :
        actor' = c /\ pc[c] = "create_insert" /\ call[c].via = "db"
                   /\ call[c].kind = "counter"
        => /\ result'[c].outcome = "ok"
           /\ LET r == result'[c].value
              IN  /\ r \in pasties'
                  /\ r.id = call[c].id
                  /\ r.content = call[c].content
                  /\ r.created_at # None
                  /\ r.created_at = r.updated_at]_vars

\* C5: update_pastie(id, data) on a pastie that exists succeeds, and the
\* pastie is then still found under id, with the created_at it had and the
\* content of data.
C5_UpdateKeepsIdAndCreatedAt ==
    [][\A c \in Clients :
        /\ actor' = c /\ pc[c] \in {"idle", "update_replace"}
        /\ pc'[c] = "idle" /\ result'[c].op = "update"
        /\ \E d \in pasties : d.id = result'[c].id
        => /\ result'[c].outcome = "ok"
           /\ \E d \in pasties, e \in pasties' :
                /\ d.id = result'[c].id /\ e.id = d.id /\ e._id = d._id
                /\ e.created_at = d.created_at
                /\ e.content = result'[c].content]_vars

\* C6: update_pastie with an id no live pastie has ends with the not-found
\* error, and the step changes neither the pasties nor the counter.
C6_UpdateOfAbsentFails ==
    [][\A c \in Clients :
        /\ Starts(c)
        /\ \/ pc'[c] = "update_replace"
           \/ pc'[c] = "idle" /\ result'[c].op = "update"
        /\ LET id == IF pc'[c] = "idle" THEN result'[c].id ELSE call'[c].id
           IN  ~ \E d \in pasties : d.id = id
        => /\ pc'[c] = "idle"
           /\ result'[c].outcome = "KeyError"
           /\ ~wrote'[c]
           /\ pasties' = pasties
           /\ counterValue' = counterValue]_vars

\* An update of an absent id has failed while the store holds other pasties.
C6_AbsentRefused ==
    \E c \in Clients :
        /\ pc[c] = "idle" /\ actor = c
        /\ result[c].op = "update" /\ result[c].outcome = "KeyError"
        /\ pasties # {}
        /\ ~ \E d \in pasties : d.id = result[c].id

\* C7: after delete_pastie(id) no pastie has that id and every other pastie is
\* as it was; with no such pastie nothing changes and no error is raised.
C7_DeleteRemovesTheId ==
    [][\A c \in Clients :
        /\ actor' = c /\ pc'[c] = "idle"
        /\ \/ pc[c] = "idle" /\ result'[c].op = "delete"
           \/ pc[c] = "api_delete"
        => /\ result'[c].outcome = "ok"
           /\ ~ \E d \in pasties' : d.id = result'[c].id
           /\ {d \in pasties' : d.id # result'[c].id}
                = {d \in pasties : d.id # result'[c].id}]_vars

\* C8: list_pasties with max_records = k returns min(k, n) of the n matching
\* pasties, and all n without max_records, in strictly ascending id order.
C8_ListReturnsMinOfLimitAndCount ==
    [][\A c \in Clients :
        Starts(c) /\ pc'[c] = "idle" /\ result'[c].op = "list"
        => LET rows == result'[c].value
               k == result'[c].id
               q == result'[c].kind
               n == Cardinality({d \in pasties : q = "" \/ d.content = q})
           IN  /\ Len(rows) = IF k = None THEN n ELSE Min(k, n)
               /\ \A i \in 1 .. Len(rows) - 1 :
                    rows[i].id < rows[i + 1].id]_vars

\* C9: for a client acting alone, POST with content C, GET of the created id,
\* DELETE of it and GET of it again are answered 201 with content C and a
\* url, 200 with content C, 200 with {deleted: true}, and 404.
IsPost(e) == e.op = "create" /\ e.via = "api" /\ e.kind = "counter"
IsOn(e, op, id) == e.op = op /\ e.via = "api" /\ e.kind = "none" /\ e.id = id
C9_CreateGetDeleteGet ==
    \A i \in 1 .. Len(log) :
        IsPost(log[i]) =>
            /\ log[i].status = 201
            /\ log[i].value.content = log[i].content
            /\ log[i].value.url # <<>>
            /\ i + 1 <= Len(log) /\ IsOn(log[i + 1], "GET", log[i].id)
               => /\ log[i + 1].status = 200
                  /\ log[i + 1].value.content = log[i].content
                  /\ i + 2 <= Len(log)
                       /\ IsOn(log[i + 2], "DELETE", log[i].id)
                     => /\ log[i + 2].status = 200
                        /\ log[i + 2].value = [deleted |-> TRUE]
                        /\ i + 3 <= Len(log)
                             /\ IsOn(log[i + 3], "GET", log[i].id)
                           => log[i + 3].status = 404

\* C10: a request that is refused (401), is malformed (400) or names an id no
\* pastie has (abort(404)) has changed neither the pasties nor the counter.
C10_RefusedRequestsWriteNothing ==
    \A c \in Clients :
        /\ pc[c] = "idle" /\ result[c].via = "api"
        /\ \/ result[c].status \in {400, 401, 404}
           \/ result[c].outcome = "abort404"
        => ~wrote[c]

\* One client was refused for a PUT without content on a pastie that exists,
\* another for an id no pastie has.
C10_BothRefused ==
    \E c, o \in Clients :
        /\ pc[c] = "idle" /\ result[c].op = "PUT" /\ result[c].status = 400
        /\ \E d \in pasties : d.id = result[c].id
        /\ pc[o] = "idle" /\ result[o].outcome = "abort404"

\* C11: create_pastie without an id never fails with the duplicate-id error:
\* the id it draws from the counter is held by no live pastie, and a call that
\* drew its id does not end with that error.
C11_CounterIdNeverDuplicate ==
    [][\A c \in Clients :
        /\ (Starts(c) /\ pc'[c] = "create_check")
           => ~ \E d \in pasties : d.id = call'[c].id
        /\ (actor' = c /\ pc'[c] = "idle" /\ result'[c].op = "create"
              /\ result'[c].kind = "counter")
           => result'[c].outcome # "ValueError"]_vars

====
